---- MODULE Spec2Model ----
(***************************************************************************)
(* Model of the tree constructor of saba_core's HTML parser                *)
(* (saba/saba_core/src/renderer/html/parser.rs, HtmlParser).               *)
(*                                                                         *)
(* One step of the model is one iteration of the `while token.is_some()`   *)
(* loop of construction_tree: the current token is dispatched on the       *)
(* insertion mode, and the handler either pulls the next token from the    *)
(* tokenizer (`token = self.t.next()`), or leaves the token in place and   *)
(* changes the mode (reprocess), or returns the window.                    *)
(*                                                                         *)
(* The DOM (renderer/dom/node.rs), the tokenizer (renderer/html/token.rs)  *)
(* and the private helpers insert_element, insert_char, pop_until,         *)
(* pop_current_node and contain_in_stack are not part of the sources at    *)
(* hand; they are modelled from the written specification (sections 3,     *)
(* 4.1, 4.2 and 4.3).  Attributes are carried through insert_element       *)
(* untouched by the constructor and are left out of the tokens.            *)
(***************************************************************************)
EXTENDS Naturals, Sequences, FiniteSets

\* Length of the token stream before the tokenizer is forced to emit Eof.
MaxTokens == 4

----------------------------------------------------------------------------
\* Vocabulary

Modes ==
  {"Initial", "BeforeHtml", "BeforeHead", "InHead", "AfterHead",
   "InBody", "Text", "AfterBody", "AfterAfterBody"}

\* Tag names the constructor compares against, and one it does not know.
KnownTags == {"html", "head", "body", "style", "script", "p", "h1", "h2", "a"}
UnknownTags == {"div"}
Tags == KnownTags \cup UnknownTags

\* One whitespace character per test of the code (' ' and '\n') and one other.
Chars == {" ", "\n", "x"}

StartTag(tag) == [type |-> "StartTag", val |-> tag]
EndTag(tag) == [type |-> "EndTag", val |-> tag]
Char(c) == [type |-> "Char", val |-> c]
Eof == [type |-> "Eof", val |-> ""]
None == [type |-> "None", val |-> ""]

HtmlToken ==
  {StartTag(tag) : tag \in Tags} \cup {EndTag(tag) : tag \in Tags}
    \cup {Char(c) : c \in Chars} \cup {Eof}

\* ElementKind::from_str: the element kind of a tag name, "Err" when the
\* name is not modelled.
ElementKind_from_str(tag) ==
  CASE tag = "html" -> "Html"
    [] tag = "head" -> "Head"
    [] tag = "body" -> "Body"
    [] tag = "style" -> "Style"
    [] tag = "script" -> "Script"
    [] tag = "p" -> "P"
    [] tag = "h1" -> "H1"
    [] tag = "h2" -> "H2"
    [] tag = "a" -> "A"
    [] OTHER -> "Err"

\* The test `c == ' ' || c == '\n'` of the modes before InBody.
IsWhitespace(c) == c = " " \/ c = "\n"

----------------------------------------------------------------------------
\* State

VARIABLES
  window,                   \* the DOM: kind, parent, children, data per node
  mode,                     \* HtmlParser.mode
  original_insertion_mode,  \* HtmlParser.original_insertion_mode
  stack_of_open_elements,   \* HtmlParser.stack_of_open_elements (node ids)
  t,                        \* the tokenizer: its state and tokens produced
  token,                    \* the local `token` of construction_tree
  pc,                       \* "running", "returned" or "panicked"
  visited,                  \* history: modes that already dispatched `token`
  nonCharPulled,            \* history: non-Char tokens pulled so far (0, 1, 2 = more)
  last                      \* history: the token and the mode of the previous dispatch

vars ==
  <<window, mode, original_insertion_mode, stack_of_open_elements, t, token,
    pc, visited, nonCharPulled, last>>

\* The Document is node 1 of every window.
Document == 1

\* Window::new(): a window holding only the Document.
Window_new ==
  [kind |-> <<"Document">>, parent |-> <<0>>, children |-> << <<>> >>,
   data |-> << <<>> >>]

Nodes(w) == 1..Len(w.kind)

----------------------------------------------------------------------------
\* DOM and stack helpers

\* append_child of a freshly created node of kind k with text d under p.
AppendChild(w, p, k, d) ==
  LET n == Len(w.kind) + 1 IN
  [kind |-> Append(w.kind, k),
   parent |-> Append(w.parent, p),
   children |-> [Append(w.children, <<>>) EXCEPT ![p] = Append(@, n)],
   data |-> Append(w.data, d)]

\* The current node: the top of the stack, the Document when it is empty.
CurrentNode(s) == IF s = <<>> THEN Document ELSE s[Len(s)]

Pop(s) == SubSeq(s, 1, Len(s) - 1)

\* insert_element pushing the node it attached to instead of the new node.
insert_element_PushCurrent(w, s, tag) ==
  LET w2 == AppendChild(w, CurrentNode(s), ElementKind_from_str(tag), <<>>) IN
  [window |-> w2, stack |-> Append(s, CurrentNode(s))]

\* insert_element recording the new node in the child list of the Document
\* as well as in that of the current node.
insert_element_AlsoUnderDocument(w, s, tag) ==
  LET w2 == AppendChild(w, CurrentNode(s), ElementKind_from_str(tag), <<>>) IN
  [window |-> [w2 EXCEPT !.children[Document] = Append(@, Len(w2.kind))],
   stack |-> Append(s, Len(w2.kind))]

\* insert_element attaching the new element as the first child.
insert_element_Prepend(w, s, tag) ==
  LET cur == CurrentNode(s)
      w2 == AppendChild(w, cur, ElementKind_from_str(tag), <<>>) IN
  [window |-> [w2 EXCEPT !.children[cur] = <<Len(w2.kind)>> \o w.children[cur]],
   stack |-> Append(s, Len(w2.kind))]

\* insert_element: create the element, attach it as the last child of the
\* current node and push it on the stack of open elements.
insert_element(w, s, tag) ==
  LET w2 == AppendChild(w, CurrentNode(s), ElementKind_from_str(tag), <<>>) IN
  [window |-> w2, stack |-> Append(s, Len(w2.kind))]

\* The text insertion rule without the look at the last child.
InsertCharAt_AlwaysNew(w, cur, c) == AppendChild(w, cur, "Text", <<c>>)

\* The text insertion rule applied under node cur.
InsertCharAt(w, cur, c) ==
  LET ch == w.children[cur] IN
  IF ch /= <<>> /\ w.kind[ch[Len(ch)]] = "Text"
    THEN [w EXCEPT !.data[ch[Len(ch)]] = Append(@, c)]
    ELSE AppendChild(w, cur, "Text", <<c>>)

\* insert_char: the set of windows the call may produce.  With an empty
\* stack there is no current element and the written rule does not say what
\* happens: the character is dropped, or it goes under the Document.
insert_char(w, s, c) ==
  IF s = <<>>
    THEN {w, InsertCharAt(w, Document, c)}
    ELSE {InsertCharAt(w, s[Len(s)], c)}

\* contain_in_stack: linear scan of the stack for an element of kind k.
contain_in_stack(w, s, k) == \E i \in 1..Len(s) : w.kind[s[i]] = k

RECURSIVE PopLoop(_, _, _)
PopLoop(w, s, k) ==
  IF s = <<>> THEN s
  ELSE IF w.kind[s[Len(s)]] = k THEN Pop(s)
  ELSE PopLoop(w, Pop(s), k)

\* pop_until: pop up to and including the first element of kind k; the
\* stack is unchanged when no such element is on it.
pop_until(w, s, k) == IF contain_in_stack(w, s, k) THEN PopLoop(w, s, k) ELSE s

\* pop_current_node: TRUE iff the top of the stack has kind k (it is then popped).
pop_current_node_ok(w, s, k) == s /= <<>> /\ w.kind[s[Len(s)]] = k

----------------------------------------------------------------------------
\* Tokenizer

\* The tokens HtmlTokenizer::next may return: after Eof only None; Eof once
\* the input is exhausted; in the Data state any token; in Rawtext only
\* characters and the end tag of a raw element.
NextTokens(tz, tk) ==
  IF tk.type \in {"Eof", "None"} THEN {None}
  ELSE IF tz.pos >= MaxTokens THEN {Eof}
  ELSE IF tz.state = "Rawtext"
    THEN {Char(c) : c \in Chars} \cup {EndTag("style"), EndTag("script"), Eof}
  ELSE HtmlToken

\* History kept for the properties: the dispatch that was just made.
Snapshot == [token |-> token, mode |-> mode]

\* `token = self.t.next()`
Advance ==
  /\ \E tk \in NextTokens(t, token) :
       /\ token' = tk
       /\ nonCharPulled' =
            IF tk.type = "Char" \/ nonCharPulled = 2 THEN nonCharPulled
            ELSE nonCharPulled + 1
  /\ t' = [t EXCEPT !.pos = @ + 1]
  /\ visited' = {}
  /\ last' = Snapshot

\* `continue` without a new token: the token is dispatched again.
Reprocess ==
  /\ UNCHANGED <<token, t, nonCharPulled>>
  /\ visited' = visited \cup {mode}
  /\ last' = Snapshot

\* `return self.window.clone()`
Return ==
  /\ pc' = "returned"
  /\ UNCHANGED <<window, mode, original_insertion_mode, stack_of_open_elements,
                 t, token, visited, nonCharPulled>>
  /\ last' = Snapshot

IsEnd(tk) == tk.type \in {"Eof", "None"}

----------------------------------------------------------------------------
\* HtmlParser::new and the first `self.t.next()` of construction_tree

Init ==
  /\ window = Window_new
  /\ mode = "Initial"
  /\ original_insertion_mode = "Initial"
  /\ stack_of_open_elements = <<>>
  /\ token \in HtmlToken
  /\ t = [state |-> "Data", pos |-> 1]
  /\ pc = "running"
  /\ visited = {}
  /\ nonCharPulled = IF token.type = "Char" THEN 0 ELSE 1
  /\ last = [token |-> None, mode |-> "Initial"]

----------------------------------------------------------------------------
\* InsertionMode::Initial

Initial_Char ==
  /\ token.type = "Char"
  /\ Advance
  /\ UNCHANGED <<window, mode, original_insertion_mode, stack_of_open_elements, pc>>

Initial_Else ==
  /\ token.type /= "Char"
  /\ mode' = "BeforeHtml"
  /\ Reprocess
  /\ UNCHANGED <<window, original_insertion_mode, stack_of_open_elements, pc>>

Initial ==
  /\ pc = "running" /\ mode = "Initial"
  /\ (Initial_Char \/ Initial_Else)

----------------------------------------------------------------------------
\* InsertionMode::BeforeHtml

BeforeHtml_Whitespace ==
  /\ token.type = "Char" /\ IsWhitespace(token.val)
  /\ Advance
  /\ UNCHANGED <<window, mode, original_insertion_mode, stack_of_open_elements, pc>>

BeforeHtml_StartTagHtml ==
  /\ token.type = "StartTag" /\ token.val = "html"
  /\ LET r == insert_element(window, stack_of_open_elements, token.val) IN
       window' = r.window /\ stack_of_open_elements' = r.stack
  /\ mode' = "BeforeHead"
  /\ Advance
  /\ UNCHANGED <<original_insertion_mode, pc>>

\* BeforeHtml without the Eof arm: Eof falls to the anything-else branch.
BeforeHtml_Eof_Synthesize ==
  /\ IsEnd(token)
  /\ LET r == insert_element(window, stack_of_open_elements, "html") IN
       window' = r.window /\ stack_of_open_elements' = r.stack
  /\ mode' = "BeforeHead"
  /\ Reprocess
  /\ UNCHANGED <<original_insertion_mode, pc>>

BeforeHtml_Eof ==
  /\ IsEnd(token)
  /\ Return

BeforeHtml_Else ==
  /\ ~IsEnd(token)
  /\ ~(token.type = "Char" /\ IsWhitespace(token.val))
  /\ ~(token.type = "StartTag" /\ token.val = "html")
  /\ LET r == insert_element(window, stack_of_open_elements, "html") IN
       window' = r.window /\ stack_of_open_elements' = r.stack
  /\ mode' = "BeforeHead"
  /\ Reprocess
  /\ UNCHANGED <<original_insertion_mode, pc>>

BeforeHtml ==
  /\ pc = "running" /\ mode = "BeforeHtml"
  /\ (BeforeHtml_Whitespace \/ BeforeHtml_StartTagHtml \/ BeforeHtml_Eof
        \/ BeforeHtml_Else)

----------------------------------------------------------------------------
\* InsertionMode::BeforeHead

\* BeforeHead dropping every Char, as Initial does.
BeforeHead_Whitespace_AnyChar ==
  /\ token.type = "Char"
  /\ Advance
  /\ UNCHANGED <<window, mode, original_insertion_mode, stack_of_open_elements, pc>>

BeforeHead_Whitespace ==
  /\ token.type = "Char" /\ IsWhitespace(token.val)
  /\ Advance
  /\ UNCHANGED <<window, mode, original_insertion_mode, stack_of_open_elements, pc>>

BeforeHead_StartTagHead ==
  /\ token.type = "StartTag" /\ token.val = "head"
  /\ LET r == insert_element(window, stack_of_open_elements, token.val) IN
       window' = r.window /\ stack_of_open_elements' = r.stack
  /\ mode' = "InHead"
  /\ Advance
  /\ UNCHANGED <<original_insertion_mode, pc>>

BeforeHead_Eof ==
  /\ IsEnd(token)
  /\ Return

BeforeHead_Else ==
  /\ ~IsEnd(token)
  /\ ~(token.type = "Char" /\ IsWhitespace(token.val))
  /\ ~(token.type = "StartTag" /\ token.val = "head")
  /\ LET r == insert_element(window, stack_of_open_elements, "head") IN
       window' = r.window /\ stack_of_open_elements' = r.stack
  /\ mode' = "InHead"
  /\ Reprocess
  /\ UNCHANGED <<original_insertion_mode, pc>>

BeforeHead ==
  /\ pc = "running" /\ mode = "BeforeHead"
  /\ (BeforeHead_Whitespace \/ BeforeHead_StartTagHead \/ BeforeHead_Eof
        \/ BeforeHead_Else)

----------------------------------------------------------------------------
\* InsertionMode::InHead

InHead_Whitespace ==
  /\ token.type = "Char" /\ IsWhitespace(token.val)
  /\ Advance
  /\ UNCHANGED <<window, mode, original_insertion_mode, stack_of_open_elements, pc>>

\* StartTag style | script without saving the mode.
InHead_StartTagStyleScript_NoSave ==
  /\ token.type = "StartTag" /\ token.val \in {"style", "script"}
  /\ LET r == insert_element(window, stack_of_open_elements, token.val) IN
       window' = r.window /\ stack_of_open_elements' = r.stack
  /\ mode' = "Text"
  /\ Advance
  /\ UNCHANGED <<original_insertion_mode, pc>>

\* StartTag style | script: the element is inserted and the mode becomes
\* Text; the handler makes no call on the tokenizer other than next().
InHead_StartTagStyleScript ==
  /\ token.type = "StartTag" /\ token.val \in {"style", "script"}
  /\ LET r == insert_element(window, stack_of_open_elements, token.val) IN
       window' = r.window /\ stack_of_open_elements' = r.stack
  /\ original_insertion_mode' = mode
  /\ mode' = "Text"
  /\ Advance
  /\ UNCHANGED pc

\* StartTag body leaving Head on the stack.
InHead_StartTagBody_NoPop ==
  /\ token.type = "StartTag" /\ token.val = "body"
  /\ mode' = "AfterHead"
  /\ Reprocess
  /\ UNCHANGED <<window, original_insertion_mode, stack_of_open_elements, pc>>

InHead_StartTagBody ==
  /\ token.type = "StartTag" /\ token.val = "body"
  /\ stack_of_open_elements' = pop_until(window, stack_of_open_elements, "Head")
  /\ mode' = "AfterHead"
  /\ Reprocess
  /\ UNCHANGED <<window, original_insertion_mode, pc>>

\* A known StartTag leaving Head on the stack.
InHead_StartTagKnown_NoPop ==
  /\ token.type = "StartTag" /\ token.val \notin {"style", "script", "body"}
  /\ ElementKind_from_str(token.val) /= "Err"
  /\ mode' = "AfterHead"
  /\ Reprocess
  /\ UNCHANGED <<window, original_insertion_mode, stack_of_open_elements, pc>>

\* A known StartTag popping only the current node.
InHead_StartTagKnown_PopOne ==
  /\ token.type = "StartTag" /\ token.val \notin {"style", "script", "body"}
  /\ ElementKind_from_str(token.val) /= "Err"
  /\ stack_of_open_elements' = Pop(stack_of_open_elements)
  /\ mode' = "AfterHead"
  /\ Reprocess
  /\ UNCHANGED <<window, original_insertion_mode, pc>>

InHead_StartTagKnown ==
  /\ token.type = "StartTag" /\ token.val \notin {"style", "script", "body"}
  /\ ElementKind_from_str(token.val) /= "Err"
  /\ stack_of_open_elements' = pop_until(window, stack_of_open_elements, "Head")
  /\ mode' = "AfterHead"
  /\ Reprocess
  /\ UNCHANGED <<window, original_insertion_mode, pc>>

InHead_EndTagHead ==
  /\ token.type = "EndTag" /\ token.val = "head"
  /\ mode' = "AfterHead"
  /\ Advance
  /\ stack_of_open_elements' = pop_until(window, stack_of_open_elements, "Head")
  /\ UNCHANGED <<window, original_insertion_mode, pc>>

InHead_Eof ==
  /\ IsEnd(token)
  /\ Return

\* Everything that falls out of the match: a Char that is not whitespace, a
\* StartTag of an unknown name, an EndTag other than head.
InHead_Else ==
  /\ \/ token.type = "Char" /\ ~IsWhitespace(token.val)
     \/ token.type = "StartTag" /\ ElementKind_from_str(token.val) = "Err"
     \/ token.type = "EndTag" /\ token.val /= "head"
  /\ Advance
  /\ UNCHANGED <<window, mode, original_insertion_mode, stack_of_open_elements, pc>>

InHead ==
  /\ pc = "running" /\ mode = "InHead"
  /\ (InHead_Whitespace \/ InHead_StartTagStyleScript \/ InHead_StartTagBody
        \/ InHead_StartTagKnown \/ InHead_EndTagHead \/ InHead_Eof
        \/ InHead_Else)

----------------------------------------------------------------------------
\* InsertionMode::AfterHead

AfterHead_Whitespace ==
  /\ token.type = "Char" /\ IsWhitespace(token.val)
  /\ Advance
  /\ UNCHANGED <<window, mode, original_insertion_mode, stack_of_open_elements, pc>>

AfterHead_StartTagBody ==
  /\ token.type = "StartTag" /\ token.val = "body"
  /\ LET r == insert_element(window, stack_of_open_elements, token.val) IN
       window' = r.window /\ stack_of_open_elements' = r.stack
  /\ Advance
  /\ mode' = "InBody"
  /\ UNCHANGED <<original_insertion_mode, pc>>

AfterHead_Eof ==
  /\ IsEnd(token)
  /\ Return

AfterHead_Else ==
  /\ ~IsEnd(token)
  /\ ~(token.type = "Char" /\ IsWhitespace(token.val))
  /\ ~(token.type = "StartTag" /\ token.val = "body")
  /\ LET r == insert_element(window, stack_of_open_elements, "body") IN
       window' = r.window /\ stack_of_open_elements' = r.stack
  /\ mode' = "InBody"
  /\ Reprocess
  /\ UNCHANGED <<original_insertion_mode, pc>>

AfterHead ==
  /\ pc = "running" /\ mode = "AfterHead"
  /\ (AfterHead_Whitespace \/ AfterHead_StartTagBody \/ AfterHead_Eof
        \/ AfterHead_Else)

----------------------------------------------------------------------------
\* InsertionMode::InBody

\* StartTag p | h1 | h2 | a
InBody_StartTag ==
  /\ token.type = "StartTag" /\ token.val \in {"p", "h1", "h2", "a"}
  /\ LET r == insert_element(window, stack_of_open_elements, token.val) IN
       window' = r.window /\ stack_of_open_elements' = r.stack
  /\ Advance
  /\ UNCHANGED <<mode, original_insertion_mode, pc>>

\* InBody inserting an element for every known StartTag.
InBody_StartTagOther_InsertKnown ==
  /\ token.type = "StartTag" /\ token.val \notin {"p", "h1", "h2", "a"}
  /\ IF ElementKind_from_str(token.val) /= "Err"
       THEN LET r == insert_element(window, stack_of_open_elements, token.val) IN
              window' = r.window /\ stack_of_open_elements' = r.stack
       ELSE UNCHANGED <<window, stack_of_open_elements>>
  /\ Advance
  /\ UNCHANGED <<mode, original_insertion_mode, pc>>

InBody_StartTagOther ==
  /\ token.type = "StartTag" /\ token.val \notin {"p", "h1", "h2", "a"}
  /\ Advance
  /\ UNCHANGED <<window, mode, original_insertion_mode, stack_of_open_elements, pc>>

\* EndTag body without `token = self.t.next()`.
InBody_EndTagBody_NoAdvance ==
  /\ token.type = "EndTag" /\ token.val = "body"
  /\ mode' = "AfterBody"
  /\ Reprocess
  /\ stack_of_open_elements' =
       IF ~contain_in_stack(window, stack_of_open_elements, "Body")
         THEN stack_of_open_elements
         ELSE pop_until(window, stack_of_open_elements, "Body")
  /\ UNCHANGED <<window, original_insertion_mode, pc>>

InBody_EndTagBody ==
  /\ token.type = "EndTag" /\ token.val = "body"
  /\ mode' = "AfterBody"
  /\ Advance
  /\ stack_of_open_elements' =
       IF ~contain_in_stack(window, stack_of_open_elements, "Body")
         THEN stack_of_open_elements
         ELSE pop_until(window, stack_of_open_elements, "Body")
  /\ UNCHANGED <<window, original_insertion_mode, pc>>

\* EndTag html pulling the next token in both branches.
InBody_EndTagHtml_Advance ==
  /\ token.type = "EndTag" /\ token.val = "html"
  /\ IF pop_current_node_ok(window, stack_of_open_elements, "Body")
       THEN LET s1 == Pop(stack_of_open_elements) IN
            /\ mode' = "AfterBody"
            /\ IF pop_current_node_ok(window, s1, "Html")
                 THEN stack_of_open_elements' = Pop(s1) /\ pc' = pc
                 ELSE stack_of_open_elements' = s1 /\ pc' = "panicked"
            /\ Advance
       ELSE /\ Advance
            /\ UNCHANGED <<mode, stack_of_open_elements, pc>>
  /\ UNCHANGED <<window, original_insertion_mode>>

\* EndTag html: with Body on top, Body is popped, the mode becomes AfterBody
\* and `assert!(self.pop_current_node(ElementKind::Html))` pops Html or
\* panics; otherwise the token is dropped.
InBody_EndTagHtml ==
  /\ token.type = "EndTag" /\ token.val = "html"
  /\ IF pop_current_node_ok(window, stack_of_open_elements, "Body")
       THEN LET s1 == Pop(stack_of_open_elements) IN
            /\ mode' = "AfterBody"
            /\ IF pop_current_node_ok(window, s1, "Html")
                 THEN stack_of_open_elements' = Pop(s1) /\ pc' = pc
                 ELSE stack_of_open_elements' = s1 /\ pc' = "panicked"
            /\ Reprocess
       ELSE /\ Advance
            /\ UNCHANGED <<mode, stack_of_open_elements, pc>>
  /\ UNCHANGED <<window, original_insertion_mode>>

\* EndTag p | h1 | h2 | a popping the current node whatever its kind.
InBody_EndTag_PopCurrent ==
  /\ token.type = "EndTag" /\ token.val \in {"p", "h1", "h2", "a"}
  /\ Advance
  /\ stack_of_open_elements' = Pop(stack_of_open_elements)
  /\ UNCHANGED <<window, mode, original_insertion_mode, pc>>

\* EndTag p | h1 | h2 | a
InBody_EndTag ==
  /\ token.type = "EndTag" /\ token.val \in {"p", "h1", "h2", "a"}
  /\ LET element_kind == ElementKind_from_str(token.val) IN
       IF element_kind = "Err"
         THEN pc' = "panicked" /\ UNCHANGED <<stack_of_open_elements, token, t,
                                             visited, nonCharPulled>>
                /\ last' = Snapshot
         ELSE /\ Advance
              /\ stack_of_open_elements' =
                   pop_until(window, stack_of_open_elements, element_kind)
              /\ pc' = pc
  /\ UNCHANGED <<window, mode, original_insertion_mode>>

InBody_EndTagOther ==
  /\ token.type = "EndTag"
  /\ token.val \notin {"body", "html", "p", "h1", "h2", "a"}
  /\ Advance
  /\ UNCHANGED <<window, mode, original_insertion_mode, stack_of_open_elements, pc>>

InBody_Eof ==
  /\ IsEnd(token)
  /\ Return

InBody_Char ==
  /\ token.type = "Char"
  /\ window' \in insert_char(window, stack_of_open_elements, token.val)
  /\ Advance
  /\ UNCHANGED <<mode, original_insertion_mode, stack_of_open_elements, pc>>

InBody ==
  /\ pc = "running" /\ mode = "InBody"
  /\ (InBody_StartTag \/ InBody_StartTagOther \/ InBody_EndTagBody
        \/ InBody_EndTagHtml \/ InBody_EndTag \/ InBody_EndTagOther
        \/ InBody_Eof \/ InBody_Char)

----------------------------------------------------------------------------
\* InsertionMode::Text

Text_Eof ==
  /\ IsEnd(token)
  /\ Return

Text_EndTagStyle ==
  /\ token.type = "EndTag" /\ token.val = "style"
  /\ stack_of_open_elements' = pop_until(window, stack_of_open_elements, "Style")
  /\ mode' = original_insertion_mode
  /\ Advance
  /\ UNCHANGED <<window, original_insertion_mode, pc>>

Text_EndTagScript ==
  /\ token.type = "EndTag" /\ token.val = "script"
  /\ stack_of_open_elements' = pop_until(window, stack_of_open_elements, "Script")
  /\ mode' = original_insertion_mode
  /\ Advance
  /\ UNCHANGED <<window, original_insertion_mode, pc>>

Text_Char ==
  /\ token.type = "Char"
  /\ window' \in insert_char(window, stack_of_open_elements, token.val)
  /\ Advance
  /\ UNCHANGED <<mode, original_insertion_mode, stack_of_open_elements, pc>>

\* Text falling back to InBody instead of the saved mode.
Text_Else_ToInBody ==
  /\ \/ token.type = "StartTag"
     \/ token.type = "EndTag" /\ token.val \notin {"style", "script"}
  /\ mode' = "InBody"
  /\ Reprocess
  /\ UNCHANGED <<window, original_insertion_mode, stack_of_open_elements, pc>>

Text_Else ==
  /\ \/ token.type = "StartTag"
     \/ token.type = "EndTag" /\ token.val \notin {"style", "script"}
  /\ mode' = original_insertion_mode
  /\ Reprocess
  /\ UNCHANGED <<window, original_insertion_mode, stack_of_open_elements, pc>>

Text ==
  /\ pc = "running" /\ mode = "Text"
  /\ (Text_Eof \/ Text_EndTagStyle \/ Text_EndTagScript \/ Text_Char
        \/ Text_Else)

----------------------------------------------------------------------------
\* InsertionMode::AfterBody

AfterBody_Char ==
  /\ token.type = "Char"
  /\ Advance
  /\ UNCHANGED <<window, mode, original_insertion_mode, stack_of_open_elements, pc>>

AfterBody_EndTagHtml ==
  /\ token.type = "EndTag" /\ token.val = "html"
  /\ mode' = "AfterAfterBody"
  /\ Advance
  /\ UNCHANGED <<window, original_insertion_mode, stack_of_open_elements, pc>>

AfterBody_Eof ==
  /\ IsEnd(token)
  /\ Return

AfterBody_Else ==
  /\ \/ token.type = "StartTag"
     \/ token.type = "EndTag" /\ token.val /= "html"
  /\ mode' = "InBody"
  /\ Reprocess
  /\ UNCHANGED <<window, original_insertion_mode, stack_of_open_elements, pc>>

AfterBody ==
  /\ pc = "running" /\ mode = "AfterBody"
  /\ (AfterBody_Char \/ AfterBody_EndTagHtml \/ AfterBody_Eof \/ AfterBody_Else)

----------------------------------------------------------------------------
\* InsertionMode::AfterAfterBody

\* AfterAfterBody handing a Char back to InBody.
AfterAfterBody_Char_Reprocess ==
  /\ token.type = "Char"
  /\ mode' = "InBody"
  /\ Reprocess
  /\ UNCHANGED <<window, original_insertion_mode, stack_of_open_elements, pc>>

AfterAfterBody_Char ==
  /\ token.type = "Char"
  /\ Advance
  /\ UNCHANGED <<window, mode, original_insertion_mode, stack_of_open_elements, pc>>

AfterAfterBody_Eof ==
  /\ IsEnd(token)
  /\ Return

AfterAfterBody_Else ==
  /\ token.type \in {"StartTag", "EndTag"}
  /\ mode' = "InBody"
  /\ Reprocess
  /\ UNCHANGED <<window, original_insertion_mode, stack_of_open_elements, pc>>

AfterAfterBody ==
  /\ pc = "running" /\ mode = "AfterAfterBody"
  /\ (AfterAfterBody_Char \/ AfterAfterBody_Eof \/ AfterAfterBody_Else)

----------------------------------------------------------------------------
\* construction_tree: one dispatch of the driver loop

Next ==
  \/ Initial
  \/ BeforeHtml
  \/ BeforeHead
  \/ InHead
  \/ AfterHead
  \/ InBody
  \/ Text
  \/ AfterBody
  \/ AfterAfterBody

Spec == Init /\ [][Next]_vars

TypeOK ==
  /\ mode \in Modes
  /\ original_insertion_mode \in Modes
  /\ pc \in {"running", "returned", "panicked"}
  /\ token \in HtmlToken \cup {None}
  /\ t.state \in {"Data", "Rawtext"}

----------------------------------------------------------------------------
\* Vocabulary of the properties

Top(s) == s[Len(s)]
KindOf(n) == window.kind[n]
LastChild(w, n) == w.children[n][Len(w.children[n])]
Consumed == t'.pos = t.pos + 1
NonWsChar(tk) == tk.type = "Char" /\ ~IsWhitespace(tk.val)

\* Places (parent, index) of the child lists that hold node n.
Occurrences(w, n) ==
  {pi \in Nodes(w) \X (1..Len(w.kind)) :
     pi[2] \in DOMAIN w.children[pi[1]] /\ w.children[pi[1]][pi[2]] = n}

\* Following parent links from n reaches the Document within `fuel` links.
RECURSIVE ReachesDocument(_, _, _)
ReachesDocument(w, n, fuel) ==
  IF n = Document THEN TRUE
  ELSE IF fuel = 0 \/ n \notin Nodes(w) THEN FALSE
  ELSE ReachesDocument(w, w.parent[n], fuel - 1)

----------------------------------------------------------------------------
\* C1: construction_tree terminates.  Every dispatch of the driver loop
\* pulls the next token, or returns, or changes the insertion mode to a mode
\* that has not yet dispatched the current token: no token is dispatched
\* twice in the same mode, so one token is dispatched at most once per mode.
C1_EveryDispatchProgresses ==
  [][pc = "running" =>
       \/ Consumed
       \/ pc' /= "running"
       \/ (mode' /= mode /\ mode' \notin visited /\ token' = token)]_vars

\* A token that went through Initial, BeforeHtml, BeforeHead, InHead and
\* AfterHead and is now dispatched in InBody.
C1_Witness ==
  /\ pc = "running" /\ mode = "InBody"
  /\ visited = {"Initial", "BeforeHtml", "BeforeHead", "InHead", "AfterHead"}

\* C2: no assertion fails during a parse: whenever InBody is about to handle
\* EndTag html with Body as the current node, the element right below Body
\* on the stack is Html, and the parse never ends in a panic.
C2_NoAssertionFails ==
  /\ pc /= "panicked"
  /\ (pc = "running" /\ mode = "InBody" /\ token = EndTag("html")
        /\ pop_current_node_ok(window, stack_of_open_elements, "Body"))
       => /\ Len(stack_of_open_elements) >= 2
          /\ KindOf(stack_of_open_elements[Len(stack_of_open_elements) - 1]) = "Html"

\* EndTag html was handled in InBody with Body on top: both pops were made.
C2_Witness ==
  /\ pc = "running" /\ mode = "AfterBody"
  /\ last = [token |-> EndTag("html"), mode |-> "InBody"]
  /\ stack_of_open_elements = <<>>
  /\ \E n \in Nodes(window) : KindOf(n) = "Body"

\* C3: the DOM is a tree rooted at the Document: the Document has no parent
\* and is in no child list; every other node has a parent, occurs exactly
\* once in all child lists together, namely in its parent's, and reaches the
\* Document by parent links.
C3_DomIsTree ==
  /\ window.parent[Document] = 0
  /\ Occurrences(window, Document) = {}
  /\ \A n \in Nodes(window) \ {Document} :
       /\ window.parent[n] \in Nodes(window)
       /\ Cardinality(Occurrences(window, n)) = 1
       /\ \A pi \in Occurrences(window, n) : pi[1] = window.parent[n]
       /\ ReachesDocument(window, n, Len(window.kind))

\* A DOM four levels deep with a node that has two children.
C3_Witness ==
  /\ \E n \in Nodes(window) : Len(window.children[n]) >= 2
  /\ \E n \in Nodes(window) :
       /\ KindOf(n) = "Text"
       /\ ~ReachesDocument(window, n, 3)

\* C4: no element occurs more than once in the stack of open elements.
C4_StackHasNoDuplicates ==
  \A i, j \in 1..Len(stack_of_open_elements) :
    stack_of_open_elements[i] = stack_of_open_elements[j] => i = j

\* A stack of four open elements.
C4_Witness == Len(stack_of_open_elements) >= 4

\* C5: end tags never underflow the stack.  An EndTag that names an element
\* kind (head in InHead; body, p, h1, h2, a in InBody; style, script in Text)
\* which is not on the stack leaves the stack and the DOM unchanged; and
\* when EndTag html pops Body in InBody, there is an element left for the
\* second pop.
EndTagWithoutMatch ==
  /\ pc = "running" /\ token.type = "EndTag"
  /\ \/ mode = "InHead" /\ token.val = "head"
     \/ mode = "InBody" /\ token.val \in {"body", "p", "h1", "h2", "a"}
     \/ mode = "Text" /\ token.val \in {"style", "script"}
  /\ ~contain_in_stack(window, stack_of_open_elements,
                       ElementKind_from_str(token.val))

C5_EndTagsNeverUnderflow ==
  [][/\ EndTagWithoutMatch =>
          /\ stack_of_open_elements' = stack_of_open_elements
          /\ window' = window
     /\ (pc = "running" /\ mode = "InBody" /\ token = EndTag("html")
           /\ pop_current_node_ok(window, stack_of_open_elements, "Body"))
          => /\ Len(stack_of_open_elements) >= 2
             /\ Len(stack_of_open_elements') = Len(stack_of_open_elements) - 2]_vars

\* EndTag p was handled in InBody although no P element was ever created.
C5_Witness ==
  /\ last = [token |-> EndTag("p"), mode |-> "InBody"]
  /\ stack_of_open_elements /= <<>>
  /\ \A n \in Nodes(window) : KindOf(n) /= "P"

\* C6: every token pulled while the mode is Text was produced by the
\* tokenizer in Rawtext mode: in Text mode the tokenizer is in Rawtext.
C6_RawtextWhileText ==
  (pc = "running" /\ mode = "Text") => t.state = "Rawtext"

\* C7 as stated: a Char that is not whitespace is not consumed by Initial,
\* BeforeHtml, BeforeHead, InHead or AfterHead; it is reprocessed.
C7_NonWhitespaceNeverDiscarded ==
  [][(pc = "running" /\ NonWsChar(token)
        /\ mode \in {"Initial", "BeforeHtml", "BeforeHead", "InHead", "AfterHead"})
       => (~Consumed /\ token' = token)]_vars

\* C7 amended: in BeforeHead and AfterHead a Char that is not whitespace
\* takes the anything-else branch (the missing head or body element is
\* created and the token is reprocessed in the next mode), while a
\* whitespace Char is dropped; in Initial and in InHead every Char is
\* consumed with mode, stack and DOM unchanged, and no Char is ever
\* dispatched in BeforeHtml; a Char that is not whitespace and comes to
\* InBody from AfterHead becomes text under Body.
SynthesizedBy(m) ==
  CASE m = "BeforeHead" -> [kind |-> "Head", mode |-> "InHead"]
    [] m = "AfterHead" -> [kind |-> "Body", mode |-> "InBody"]

C7_CharsBeforeBody ==
  [][(pc = "running" /\ token.type = "Char") =>
       /\ mode /= "BeforeHtml"
       /\ (mode \in {"BeforeHead", "AfterHead"} /\ NonWsChar(token))
            => /\ ~Consumed /\ token' = token
               /\ mode' = SynthesizedBy(mode).mode
               /\ Len(window'.kind) = Len(window.kind) + 1
               /\ window'.kind[Len(window'.kind)] = SynthesizedBy(mode).kind
               /\ Top(stack_of_open_elements') = Len(window'.kind)
       /\ (\/ mode \in {"Initial", "InHead"}
           \/ mode \in {"BeforeHead", "AfterHead"} /\ ~NonWsChar(token))
            => /\ Consumed
               /\ UNCHANGED <<window, mode, stack_of_open_elements>>
       /\ (mode = "InBody" /\ "AfterHead" \in visited)
            => /\ Consumed
               /\ KindOf(Top(stack_of_open_elements)) = "Body"
               /\ LET n == LastChild(window', Top(stack_of_open_elements)) IN
                    /\ window'.kind[n] = "Text"
                    /\ window'.data[n] = <<token.val>>]_vars

\* A Char that is not whitespace was dispatched in AfterHead: Body has been
\* synthesized and the Char is about to be handled in InBody.
C7_Witness ==
  /\ pc = "running" /\ mode = "InBody" /\ "AfterHead" \in visited
  /\ NonWsChar(token)
  /\ KindOf(Top(stack_of_open_elements)) = "Body"

\* C8: missing wrappers are synthesized.  When the first token that is not a
\* Char is a StartTag p, h1, h2 or a, then once it has been consumed the DOM
\* is Document -> Html -> (Head without children, Body -> the new element),
\* the stack is [Html, Body, the new element] and the mode is InBody.
C8_WrappersSynthesized ==
  [][(pc = "running" /\ nonCharPulled = 1 /\ Consumed
        /\ token.type = "StartTag" /\ token.val \in {"p", "h1", "h2", "a"})
       => /\ mode' = "InBody"
          /\ window'.kind =
               <<"Document", "Html", "Head", "Body", ElementKind_from_str(token.val)>>
          /\ window'.children = << <<2>>, <<3, 4>>, <<>>, <<5>>, <<>> >>
          /\ window'.parent = <<0, 1, 2, 2, 4>>
          /\ stack_of_open_elements' = <<2, 4, 5>>]_vars

\* Chars and then StartTag h1 were pulled; the tag has just been consumed in
\* InBody and another Char has arrived.
C8_Witness ==
  /\ nonCharPulled = 1 /\ token.type = "Char" /\ t.pos >= 3
  /\ last = [token |-> StartTag("h1"), mode |-> "InBody"]
  /\ stack_of_open_elements = <<2, 4, 5>>

\* C9: Char tokens coalesce.  A Char handled in InBody or Text while the
\* last child of the current node is a Text node creates no node and extends
\* that Text node by the character; and no node has two Text nodes as
\* consecutive children.
C9_CharsCoalesce ==
  /\ [][(pc = "running" /\ token.type = "Char" /\ mode \in {"InBody", "Text"}
           /\ stack_of_open_elements /= <<>>
           /\ window.children[Top(stack_of_open_elements)] /= <<>>
           /\ KindOf(LastChild(window, Top(stack_of_open_elements))) = "Text")
          => LET n == LastChild(window, Top(stack_of_open_elements)) IN
               window' = [window EXCEPT !.data[n] = Append(@, token.val)]]_vars
  /\ [](\A p \in Nodes(window) : \A i \in 1..Len(window.children[p]) :
          (i > 1 /\ KindOf(window.children[p][i]) = "Text")
            => KindOf(window.children[p][i - 1]) /= "Text")

\* A Text node that holds two characters.
C9_Witness ==
  \E n \in Nodes(window) : KindOf(n) = "Text" /\ Len(window.data[n]) >= 2

\* C10: when the stack of open elements is not empty, its bottom element is
\* the Html element.
C10_BottomIsHtml ==
  stack_of_open_elements /= <<>> => KindOf(stack_of_open_elements[1]) = "Html"

\* C11: every node is attached to the current node at creation.  Whenever a
\* handler inserts an element other than Html (BeforeHead, InHead, AfterHead,
\* InBody) or a character (Char in InBody or Text), the stack of open
\* elements is not empty, and the new or extended node is the last child of
\* the element that was on top of the stack.
InsertsElement ==
  \/ mode = "BeforeHead" /\ ~IsEnd(token)
       /\ ~(token.type = "Char" /\ IsWhitespace(token.val))
  \/ mode = "InHead" /\ token.type = "StartTag" /\ token.val \in {"style", "script"}
  \/ mode = "AfterHead" /\ ~IsEnd(token)
       /\ ~(token.type = "Char" /\ IsWhitespace(token.val))
  \/ mode = "InBody" /\ token.type = "StartTag" /\ token.val \in {"p", "h1", "h2", "a"}

InsertsChar == mode \in {"InBody", "Text"} /\ token.type = "Char"

C11_AttachedToCurrentNode ==
  [][(pc = "running" /\ (InsertsElement \/ InsertsChar)) =>
       /\ stack_of_open_elements /= <<>>
       /\ LET cur == Top(stack_of_open_elements) IN
            /\ window'.children[cur] /= <<>>
            /\ LET n == LastChild(window', cur) IN
                 /\ window'.parent[n] = cur
                 /\ InsertsElement => n = Len(window'.kind) /\ n \notin Nodes(window)
                 /\ InsertsChar => window'.kind[n] = "Text"]_vars

\* C12: an Eof token (or the end of the stream) makes construction_tree
\* return the window without creating a node and without changing the stack:
\* every mode but Initial returns on the spot, Initial hands the token to
\* BeforeHtml, which returns.
C12_EofReturnsUnchanged ==
  [][(pc = "running" /\ IsEnd(token)) =>
       /\ window' = window
       /\ stack_of_open_elements' = stack_of_open_elements
       /\ \/ pc' = "returned" /\ mode' = mode
          \/ mode = "Initial" /\ mode' = "BeforeHtml" /\ token' = token
               /\ pc' = "running"]_vars

\* Eof was the only token: the parse returned from BeforeHtml with the DOM
\* holding nothing but the Document.
C12_Witness ==
  /\ pc = "returned" /\ last = [token |-> Eof, mode |-> "BeforeHtml"]
  /\ window = Window_new /\ stack_of_open_elements = <<>>

\* C13: original_insertion_mode is written exactly when the mode becomes
\* Text (it then holds the mode that was current), it is unchanged by every
\* other step, and every step that leaves Text sets the mode to it.
C13_OriginalModeSavedAndRestored ==
  [][/\ (mode /= "Text" /\ mode' = "Text") => original_insertion_mode' = mode
     /\ ~(mode /= "Text" /\ mode' = "Text")
          => original_insertion_mode' = original_insertion_mode
     /\ (mode = "Text" /\ mode' /= "Text")
          => /\ mode' = original_insertion_mode
             /\ token.type \in {"StartTag", "EndTag"}]_vars

\* A StartTag arrived in Text mode and threw the parser back to InHead, where
\* it is about to be dispatched again.
C13_Witness ==
  /\ pc = "running" /\ mode = "InHead" /\ visited = {"Text"}
  /\ token.type = "StartTag"
  /\ original_insertion_mode = "InHead"

\* C14: EndTag html in InBody.  With Body as the current node, Body and Html
\* are popped, the mode becomes AfterBody and the token is kept; AfterBody
\* then consumes it, the mode becomes AfterAfterBody and the stack is empty.
\* With another current node the token is consumed and mode, stack and DOM
\* are unchanged.
C14_EndTagHtmlInBody ==
  [][(pc = "running" /\ token = EndTag("html")) =>
       /\ (mode = "InBody"
             /\ pop_current_node_ok(window, stack_of_open_elements, "Body"))
            => /\ KindOf(stack_of_open_elements[Len(stack_of_open_elements) - 1]) = "Html"
               /\ stack_of_open_elements' =
                    SubSeq(stack_of_open_elements, 1, Len(stack_of_open_elements) - 2)
               /\ mode' = "AfterBody" /\ ~Consumed /\ token' = token
               /\ window' = window
       /\ (mode = "InBody"
             /\ ~pop_current_node_ok(window, stack_of_open_elements, "Body"))
            => /\ Consumed
               /\ UNCHANGED <<mode, stack_of_open_elements, window>>
       /\ (mode = "AfterBody" /\ "InBody" \in visited)
            => /\ Consumed /\ mode' = "AfterAfterBody"
               /\ stack_of_open_elements' = <<>>]_vars

\* EndTag html went from InBody to AfterBody and was consumed there: the
\* mode is AfterAfterBody and the stack, which held Html and Body, is empty.
C14_Witness ==
  /\ mode = "AfterAfterBody" /\ stack_of_open_elements = <<>>
  /\ last = [token |-> EndTag("html"), mode |-> "AfterBody"]
  /\ \E n \in Nodes(window) : KindOf(n) = "Body"

\* C15: a StartTag body, or one of a known element kind other than style and
\* script, is not consumed in InHead: Head and everything above it are
\* popped, the DOM is untouched, the mode becomes AfterHead and the token is
\* kept; and when a token that was handed on by InHead is consumed, Head is
\* not on the stack and a Body element is.
C15_KnownStartTagLeavesHead ==
  [][pc = "running" =>
       /\ (mode = "InHead" /\ token.type = "StartTag"
             /\ token.val \notin {"style", "script"}
             /\ ElementKind_from_str(token.val) /= "Err")
            => /\ ~Consumed /\ token' = token
               /\ mode' = "AfterHead"
               /\ window' = window
               /\ \E i \in 1..Len(stack_of_open_elements) :
                    /\ KindOf(stack_of_open_elements[i]) = "Head"
                    /\ stack_of_open_elements' = SubSeq(stack_of_open_elements, 1, i - 1)
               /\ ~contain_in_stack(window', stack_of_open_elements', "Head")
       /\ ("InHead" \in visited /\ Consumed)
            => /\ ~contain_in_stack(window', stack_of_open_elements', "Head")
               /\ contain_in_stack(window', stack_of_open_elements', "Body")]_vars

\* A known StartTag was dispatched in InHead while a Style element was open
\* above Head: both were popped and the token waits in AfterHead.
C15_Witness ==
  /\ pc = "running" /\ mode = "AfterHead" /\ "InHead" \in visited
  /\ token.type = "StartTag"
  /\ \E n \in Nodes(window) : KindOf(n) = "Style"
  /\ Len(stack_of_open_elements) = 1
  /\ KindOf(stack_of_open_elements[1]) = "Html"

\* C16: a Char dispatched in AfterBody or AfterAfterBody is consumed with
\* the mode, the stack of open elements and the DOM unchanged.
C16_CharsAfterBodyDropped ==
  [][(pc = "running" /\ token.type = "Char"
        /\ mode \in {"AfterBody", "AfterAfterBody"})
       => /\ Consumed
          /\ UNCHANGED <<mode, stack_of_open_elements, window,
                         original_insertion_mode, pc>>]_vars

\* A Char that is not whitespace was consumed in AfterAfterBody.
C16_Witness ==
  /\ mode = "AfterAfterBody"
  /\ last = [token |-> Char("x"), mode |-> "AfterAfterBody"]

\* C17: the parser only appends to the DOM.  Across every step no node
\* disappears or changes its kind, no node changes its parent, every child
\* list is a prefix of what it becomes and every text is a prefix of what it
\* becomes.
IsPrefix(a, b) == Len(a) <= Len(b) /\ a = SubSeq(b, 1, Len(a))

C17_DomOnlyGrows ==
  [][/\ Len(window'.kind) >= Len(window.kind)
     /\ \A n \in Nodes(window) :
          /\ window'.kind[n] = window.kind[n]
          /\ window'.parent[n] = window.parent[n]
          /\ IsPrefix(window.children[n], window'.children[n])
          /\ IsPrefix(window.data[n], window'.data[n])]_vars

\* An element that has been popped off the stack is still in the DOM, next
\* to a later sibling.
C17_Witness ==
  \E n \in Nodes(window) :
    /\ KindOf(n) \in {"P", "H1", "H2", "A"}
    /\ \A i \in 1..Len(stack_of_open_elements) : stack_of_open_elements[i] /= n
    /\ Len(window.children[window.parent[n]]) >= 2
    /\ window.children[window.parent[n]][1] = n

\* C18: at most one Html, one Head and one Body element is ever created.
\* The modes only move forward (Initial, BeforeHtml, BeforeHead, then InHead
\* and Text, then AfterHead, then InBody, AfterBody and AfterAfterBody), so
\* BeforeHtml, BeforeHead and AfterHead are never entered again, and a
\* StartTag html, head or body dispatched in InBody leaves the DOM alone.
ModeRank(m) ==
  CASE m = "Initial" -> 0
    [] m = "BeforeHtml" -> 1
    [] m = "BeforeHead" -> 2
    [] m \in {"InHead", "Text"} -> 3
    [] m = "AfterHead" -> 4
    [] m \in {"InBody", "AfterBody", "AfterAfterBody"} -> 5

CountKind(w, k) == Cardinality({n \in Nodes(w) : w.kind[n] = k})

C18_OneHtmlHeadBody ==
  /\ [](\A k \in {"Html", "Head", "Body"} : CountKind(window, k) <= 1)
  /\ [][/\ ModeRank(mode') >= ModeRank(mode)
        /\ (mode \in {"BeforeHtml", "BeforeHead", "AfterHead"} /\ mode' /= mode)
             => ModeRank(mode') > ModeRank(mode)
        /\ (pc = "running" /\ mode = "InBody" /\ token.type = "StartTag"
              /\ token.val \in {"html", "head", "body"})
             => window' = window /\ Consumed]_vars

\* StartTag body was consumed in InBody and there is still one Body element.
C18_Witness ==
  /\ last = [token |-> StartTag("body"), mode |-> "InBody"]
  /\ CountKind(window, "Body") = 1
  /\ CountKind(window, "Html") = 1
  /\ CountKind(window, "Head") = 1

\* C19: whenever the mode is Text, original_insertion_mode is InHead and the
\* current node is a Style or Script element.
C19_TextModeState ==
  mode = "Text" =>
    /\ original_insertion_mode = "InHead"
    /\ stack_of_open_elements /= <<>>
    /\ KindOf(Top(stack_of_open_elements)) \in {"Style", "Script"}

\* Text mode was entered a second time, after a first raw element was
\* closed, and a Char has been handled in it.
C19_Witness ==
  /\ pc = "running" /\ mode = "Text"
  /\ last.mode = "Text" /\ last.token.type = "Char"
  /\ CountKind(window, "Style") + CountKind(window, "Script") = 2

\* C20: every P, H1, H2 and A element is a descendant of the Body element,
\* and every Text node is a descendant of Body or a child of a Style or
\* Script element.
RECURSIVE HasAncestorOfKind(_, _, _, _)
HasAncestorOfKind(w, n, k, fuel) ==
  IF n = Document \/ fuel = 0 \/ n \notin Nodes(w) THEN FALSE
  ELSE IF w.kind[w.parent[n]] = k THEN TRUE
  ELSE HasAncestorOfKind(w, w.parent[n], k, fuel - 1)

C20_ContentUnderBody ==
  \A n \in Nodes(window) :
    /\ KindOf(n) \in {"P", "H1", "H2", "A"}
         => HasAncestorOfKind(window, n, "Body", Len(window.kind))
    /\ KindOf(n) = "Text"
         => \/ HasAncestorOfKind(window, n, "Body", Len(window.kind))
            \/ KindOf(window.parent[n]) \in {"Style", "Script"}

====
